---- MODULE Spec2Model ----
(***************************************************************************)
(* A model of the two batch tools of the repository:                       *)
(*   - package.py, the packager: scans one subdirectory per resolution,    *)
(*     validates frame counts, groups frames into sequences, routes the    *)
(*     sequences to train/test and writes them into an HDF5 archive;       *)
(*   - render.py, the renderer driver: registers the Roughness AOV pass    *)
(*     and wires an AOV output node into every node-based material.        *)
(* The packager runs under Spec, the renderer driver under SpecRender.     *)
(***************************************************************************)
EXTENDS Integers, Sequences, FiniteSets, TLC

VARIABLES
    args,                  \* the parsed command line (package.py:68)
    input_dir,             \* the input directory on disk
    prior,                 \* the destination archive as it was before the run
    archive,               \* the destination archive on disk
    pc,                    \* position of the packager in its script
    err,                   \* the failure that ended the run, if any
    existing_resolutions,  \* package.py:75,81
    subdirs,               \* package.py:84
    n_frames,              \* package.py:87
    n_sequences,           \* package.py:94
    cur,                   \* index in subdirs of the loop variable subdir (package.py:109)
    sequence,              \* loop variable of package.py:120
    frame,                 \* loop variable of package.py:131
    train_seq_index,       \* package.py:117
    test_seq_index,        \* package.py:118
    frame_dimensions,      \* package.py:112
    log,                   \* the lines printed by the run
    reads,                 \* the source files handed to OpenEXR.InputFile, in order
    rpc,                   \* position of the renderer driver in its script
    blend,                 \* the materials of the .blend file as loaded (render.py:23)
    aovs,                  \* view_layer.aovs of the scene
    materials,             \* bpy.data.materials
    mat,                   \* index of the loop variable material (render.py:60)
    passes                 \* the view layer passes enabled so far

pvars == <<args, input_dir, prior, archive, pc, err, existing_resolutions, subdirs,
           n_frames, n_sequences, cur, sequence, frame, train_seq_index,
           test_seq_index, frame_dimensions, log, reads>>
rvars == <<rpc, blend, aovs, materials, mat, passes>>
vars == <<pvars, rvars>>

----------------------------------------------------------------------------
(* Bounds of the model. *)

\* the largest number of .exr files in one resolution subdirectory
MaxFrames == 4
\* the largest --frames-per-sequence value
MaxFps == 2
\* the longest --test-sequences list
MaxTestLen == 2
\* the largest --frame-index-digits / --sequence-index-digits value
MaxDigits == 4

(* Program constants. *)

\* default of --frame-index-digits and --sequence-index-digits
DefaultDigits == 3
\* the digit width of a source file name, f"frame-{...:04d}.exr"
FileDigits == 4

\* the resolution subdirectories an input directory may hold
Resolutions == {"A", "B", "C"}
\* the (width, height) pairs a frame's data window may have; the first two
\* hold the same number of pixels
DimChoices == {<<1, 2>>, <<2, 1>>, <<2, 2>>}
None == <<>>

----------------------------------------------------------------------------
(* Python's integer formatting f"{n:0{w}d}". *)

RECURSIVE Digits(_)
Digits(n) == IF n < 10 THEN <<n>> ELSE Append(Digits(n \div 10), n % 10)

ZeroPad(n, w) ==
    LET d == Digits(n)
    IN  IF Len(d) >= w THEN d ELSE [i \in 1..(w - Len(d)) |-> 0] \o d

\* f"seq-{i:0{sd}d}"
SeqGroupName(i) == [prefix |-> "seq", digits |-> ZeroPad(i, args.sequence_index_digits)]

\* f"frame-{frame:0{fd}d}"
FrameGroupName(f) == [prefix |-> "frame", digits |-> ZeroPad(f, args.frame_index_digits)]

\* a plausible slip: the source file name padded with --frame-index-digits
FrameFileConfiguredWidth(f, s) ==
    [prefix |-> "frame",
     digits |-> ZeroPad(f + args.frames_per_sequence * s + 1, args.frame_index_digits)]

\* f"frame-{frame + args.frames_per_sequence * sequence + 1:04d}.exr"
FrameFile(f, s) ==
    [prefix |-> "frame",
     digits |-> ZeroPad(f + args.frames_per_sequence * s + 1, FileDigits)]

\* the file the renderer driver writes for a frame number, f"frame-{frame:04d}"
RenderedFile(i) == [prefix |-> "frame", digits |-> ZeroPad(i, FileDigits)]

----------------------------------------------------------------------------
(* The archive. *)

LayerNames == {"combined", "normal", "vector", "depth", "diffuse-col", "diffuse-dir",
               "diffuse-ind", "glossy-col", "glossy-dir", "glossy-ind", "emission",
               "environment", "roughness"}

NoErr == [kind |-> "none", res |-> "-"]
NoAttrs == [k \in {} |-> 0]
NoGroups == [r \in {} |-> 0]
NoFile == [exists |-> FALSE, attrs |-> NoAttrs, groups |-> NoGroups]

\* a resolution group an earlier run left in the archive
PriorGroup(r) ==
    [dims  |-> <<2, 2>>,
     train |-> << [name   |-> [prefix |-> "seq", digits |-> <<0, 0, 0>>],
                   frames |-> << [name   |-> [prefix |-> "frame", digits |-> <<0, 0, 0>>],
                                  file   |-> [prefix |-> "prior-" \o r, digits |-> <<0, 0, 0, 1>>],
                                  shape  |-> <<2, 2>>,
                                  layers |-> LayerNames] >>] >>,
     test  |-> <<>>]

PriorAttrs ==
    [total_frames |-> 1, frames_per_sequence |-> 1, sequence_index_digits |-> DefaultDigits,
     frame_index_digits |-> DefaultDigits, test_sequences |-> 0, train_sequences |-> 1]

PriorArchive(E) == [exists |-> TRUE, attrs |-> PriorAttrs, groups |-> [r \in E |-> PriorGroup(r)]]

\* a directory of n rendered frames, frame-0001.exr .. frame-<n>.exr, all of dimensions d
UniformSubdir(n, d) == [f \in {RenderedFile(i) : i \in 1..n} |-> d]

----------------------------------------------------------------------------
(* The packager, package.py. *)

\* peak_frame_count: the number of .exr files of a resolution subdirectory
peak_frame_count(subdir) == Cardinality(DOMAIN input_dir.subdirs[subdir])

\* all orders in which input_dir.iterdir() may yield the members of S
Orderings(S) ==
    {o \in [1..Cardinality(S) -> S] : \A i, j \in 1..Cardinality(S) : o[i] = o[j] => i = j}

\* the filter of line 84: d.name not in existing_resolutions
Selected(d) == d \notin existing_resolutions

\* a plausible slip: only a subdirectory with fewer frames than the first is reported
FirstFewer(sd, n) ==
    LET bad == {i \in 2..Len(sd) : peak_frame_count(sd[i]) < n}
    IN  IF bad = {} THEN 0 ELSE CHOOSE i \in bad : \A j \in bad : i <= j

\* the loop of lines 89-92: the index of the first subdirectory after the first one
\* whose frame count is not n, 0 when there is none
FirstMismatch(sd, n) ==
    LET bad == {i \in 2..Len(sd) : peak_frame_count(sd[i]) # n}
    IN  IF bad = {} THEN 0 ELSE CHOOSE i \in bad : \A j \in bad : i <= j

\* a plausible slip: rounding the number of sequences up
NumSequencesCeil(n, p) == (n + p - 1) \div p

\* n_frames // args.frames_per_sequence, for p > 0
NumSequences(n, p) == n \div p

\* a plausible slip: zero sequences let through
NotEnoughStrict(n) == n < 0

\* the test of line 95
NotEnough(n) == n <= 0

\* a plausible slip: the archive always truncated
OpenModeTruncate == "w"

\* 'a' if args.append else 'w'
OpenMode == IF args.append THEN "a" ELSE "w"

\* h5py.File(path, mode) for mode 'a' (read/write if the file exists, create it
\* otherwise) and mode 'w' (create the file, truncate it if it exists)
Opened(file, mode) ==
    IF mode = "a" /\ file.exists THEN file
    ELSE [exists |-> TRUE, attrs |-> NoAttrs, groups |-> NoGroups]

\* the root attributes written by lines 102-107
RootAttrs ==
    [total_frames |-> n_frames,
     frames_per_sequence |-> args.frames_per_sequence,
     sequence_index_digits |-> args.sequence_index_digits,
     frame_index_digits |-> args.frame_index_digits,
     test_sequences |-> Len(args.test_sequences),
     train_sequences |-> n_sequences - Len(args.test_sequences)]

\* sequence in args.test_sequences
InTest(s) == \E i \in 1..Len(args.test_sequences) : args.test_sequences[i] = s

Split(s) == IF InTest(s) THEN "test" ELSE "train"

\* a plausible slip: the sequence group numbered by the overall sequence index
SplitIndexOverall(split) == sequence

\* the counter that numbers the next sequence group of a split
SplitIndex(split) == IF split = "test" THEN test_seq_index ELSE train_seq_index

\* lines 138-143: the first frame of a resolution fixes frame_dimensions
CanonicalDims(known, seen) == IF known = None THEN seen ELSE known

\* numpy's reshape(height, width) of a channel of a frame of dimensions seen:
\* it succeeds exactly when the element counts agree
ReshapeFits(seen, shape) == seen[1] * seen[2] = shape[1] * shape[2]

Names(groups) == {groups[i].name : i \in 1..Len(groups)}

Fail(kind, res) ==
    /\ pc' = "error"
    /\ err' = [kind |-> kind, res |-> res]

\* lines 70-72
CheckInputDir ==
    /\ pc = "start"
    /\ IF ~input_dir.exists
       THEN Fail("FileNotFoundError", "-")
       ELSE pc' = "check_output" /\ err' = err
    /\ UNCHANGED rvars
    /\ UNCHANGED <<args, input_dir, prior, archive, existing_resolutions, subdirs,
                   n_frames, n_sequences, cur, sequence, frame, train_seq_index,
                   test_seq_index, frame_dimensions, log, reads>>

\* lines 74-82
CheckOutputFile ==
    /\ pc = "check_output"
    /\ IF archive.exists /\ ~args.append /\ ~args.overwrite
       THEN /\ Fail("exit(1)", "-")
            /\ UNCHANGED existing_resolutions
       ELSE /\ pc' = "list"
            /\ err' = err
            /\ existing_resolutions' =
                  IF archive.exists /\ ~args.overwrite
                  THEN DOMAIN archive.groups
                  ELSE existing_resolutions
    /\ UNCHANGED rvars
    /\ UNCHANGED <<args, input_dir, prior, archive, subdirs, n_frames, n_sequences,
                   cur, sequence, frame, train_seq_index, test_seq_index,
                   frame_dimensions, log, reads>>

\* lines 84-85
ListSubdirs ==
    /\ pc = "list"
    /\ \E o \in Orderings(DOMAIN input_dir.subdirs) :
          subdirs' = SelectSeq(o, Selected)
    /\ pc' = "count"
    /\ UNCHANGED rvars
    /\ UNCHANGED <<args, input_dir, prior, archive, err, existing_resolutions,
                   n_frames, n_sequences, cur, sequence, frame, train_seq_index,
                   test_seq_index, frame_dimensions, log, reads>>

\* lines 87-92
ValidateFrameCounts ==
    /\ pc = "count"
    /\ IF subdirs = <<>>
       THEN /\ Fail("IndexError", "-")
            /\ UNCHANGED n_frames
       ELSE /\ n_frames' = peak_frame_count(subdirs[1])
            /\ LET i == FirstMismatch(subdirs, n_frames')
               IN  IF i # 0
                   THEN Fail("ValueError: inconsistent number of frames", subdirs[i])
                   ELSE pc' = "sequences" /\ err' = err
    /\ UNCHANGED rvars
    /\ UNCHANGED <<args, input_dir, prior, archive, existing_resolutions, subdirs,
                   n_sequences, cur, sequence, frame, train_seq_index, test_seq_index,
                   frame_dimensions, log, reads>>

\* lines 94-98
ComputeSequences ==
    /\ pc = "sequences"
    /\ IF args.frames_per_sequence = 0
       THEN /\ Fail("ZeroDivisionError", "-")
            /\ UNCHANGED n_sequences
       ELSE /\ n_sequences' = NumSequences(n_frames, args.frames_per_sequence)
            /\ IF NotEnough(n_sequences')
               THEN Fail("ValueError: not enough frames", "-")
               ELSE pc' = "open" /\ err' = err
    /\ UNCHANGED rvars
    /\ UNCHANGED <<args, input_dir, prior, archive, existing_resolutions, subdirs,
                   n_frames, cur, sequence, frame, train_seq_index, test_seq_index,
                   frame_dimensions, log, reads>>

\* lines 100-107
OpenArchive ==
    /\ pc = "open"
    /\ archive' = [Opened(archive, OpenMode) EXCEPT !.attrs = RootAttrs]
    /\ cur' = 1
    /\ pc' = "resolution"
    /\ UNCHANGED rvars
    /\ UNCHANGED <<args, input_dir, prior, err, existing_resolutions, subdirs,
                   n_frames, n_sequences, sequence, frame, train_seq_index,
                   test_seq_index, frame_dimensions, log, reads>>

\* lines 109-118; create_group raises ValueError when the name is taken
BeginResolution ==
    /\ pc = "resolution"
    /\ cur <= Len(subdirs)
    /\ LET r == subdirs[cur]
       IN  IF r \in DOMAIN archive.groups
           THEN /\ Fail("ValueError: name already exists", r)
                /\ UNCHANGED <<archive, frame_dimensions, train_seq_index,
                               test_seq_index, sequence>>
           ELSE /\ archive' = [archive EXCEPT !.groups =
                                  (r :> [dims |-> None, train |-> <<>>, test |-> <<>>]) @@ @]
                /\ frame_dimensions' = None
                /\ train_seq_index' = 0
                /\ test_seq_index' = 0
                /\ sequence' = 0
                /\ pc' = "sequence"
                /\ err' = err
    /\ log' = Append(log, [msg |-> "Packaging resolution", res |-> subdirs[cur],
                           sequence |-> 0, split |-> "-", file |-> None])
    /\ UNCHANGED rvars
    /\ UNCHANGED <<args, input_dir, prior, existing_resolutions, subdirs, n_frames,
                   n_sequences, cur, frame, reads>>

\* lines 120-130
BeginSequence ==
    /\ pc = "sequence"
    /\ sequence < n_sequences
    /\ LET r     == subdirs[cur]
           split == Split(sequence)
           name  == SeqGroupName(SplitIndex(split))
       IN  /\ log' = Append(log, [msg |-> "Assembling sequence", res |-> r,
                                  sequence |-> sequence, split |-> split, file |-> None])
           /\ IF name \in Names(archive.groups[r][split])
              THEN /\ Fail("ValueError: name already exists", r)
                   /\ UNCHANGED <<archive, train_seq_index, test_seq_index, frame>>
              ELSE /\ archive' = [archive EXCEPT !.groups[r][split] =
                                     Append(@, [name |-> name, frames |-> <<>>])]
                   /\ test_seq_index' = IF split = "test" THEN test_seq_index + 1
                                        ELSE test_seq_index
                   /\ train_seq_index' = IF split = "train" THEN train_seq_index + 1
                                         ELSE train_seq_index
                   /\ frame' = 0
                   /\ pc' = "frame"
                   /\ err' = err
    /\ UNCHANGED rvars
    /\ UNCHANGED <<args, input_dir, prior, existing_resolutions, subdirs, n_frames,
                   n_sequences, cur, sequence, frame_dimensions, reads>>

\* lines 131-156, one pass of the frame loop
ProcessFrame ==
    /\ pc = "frame"
    /\ frame < args.frames_per_sequence
    /\ LET r     == subdirs[cur]
           split == Split(sequence)
           k     == Len(archive.groups[r][split])
           name  == FrameGroupName(frame)
           file  == FrameFile(frame, sequence)
           Group(shape, layers) ==
               [name |-> name, file |-> file, shape |-> shape, layers |-> layers]
           With(g) == [archive EXCEPT !.groups[r][split][k].frames = Append(@, g)]
       IN  IF name \in Names(archive.groups[r][split][k].frames)
           THEN /\ Fail("ValueError: name already exists", r)
                /\ UNCHANGED <<archive, frame_dimensions, log, reads, frame, sequence>>
           ELSE /\ reads' = Append(reads, [res |-> r, sequence |-> sequence,
                                           frame |-> frame, file |-> file])
                /\ IF file \notin DOMAIN input_dir.subdirs[r]
                   THEN /\ Fail("OpenEXR: cannot open file", r)
                        /\ archive' = With(Group(None, {}))
                        /\ UNCHANGED <<frame_dimensions, log, frame, sequence>>
                   ELSE LET seen == input_dir.subdirs[r][file]
                            dims == CanonicalDims(frame_dimensions, seen)
                        IN  /\ frame_dimensions' = dims
                            /\ log' = IF frame_dimensions # None /\ frame_dimensions # seen
                                      THEN Append(log, [msg |-> "Detected inconsistent frame dimensions",
                                                        res |-> r, sequence |-> sequence,
                                                        split |-> split, file |-> file])
                                      ELSE log
                            /\ IF ReshapeFits(seen, dims)
                               THEN /\ archive' = With(Group(dims, LayerNames))
                                    /\ frame' = frame + 1
                                    /\ sequence' = IF frame + 1 = args.frames_per_sequence
                                                   THEN sequence + 1 ELSE sequence
                                    /\ pc' = IF frame + 1 = args.frames_per_sequence
                                             THEN "sequence" ELSE "frame"
                                    /\ err' = err
                               ELSE /\ Fail("ValueError: cannot reshape array", r)
                                    /\ archive' = With(Group(None, {}))
                                    /\ UNCHANGED <<frame, sequence>>
    /\ UNCHANGED rvars
    /\ UNCHANGED <<args, input_dir, prior, existing_resolutions, subdirs, n_frames,
                   n_sequences, cur, train_seq_index, test_seq_index>>

\* lines 158-159, and the end of the loop of line 109: the archive is closed
EndResolution ==
    /\ pc = "sequence"
    /\ sequence = n_sequences
    /\ archive' = [archive EXCEPT !.groups[subdirs[cur]].dims = frame_dimensions]
    /\ cur' = cur + 1
    /\ pc' = IF cur + 1 > Len(subdirs) THEN "done" ELSE "resolution"
    /\ UNCHANGED rvars
    /\ UNCHANGED <<args, input_dir, prior, err, existing_resolutions, subdirs,
                   n_frames, n_sequences, sequence, frame, train_seq_index,
                   test_seq_index, frame_dimensions, log, reads>>

----------------------------------------------------------------------------
(* The renderer driver, render.py: the Roughness pass and the material loop. *)

NoLink == "none"
NoNode == [exists |-> FALSE, aov_name |-> "", link |-> NoLink, default_value |-> 0]
\* nodes.new(type="ShaderNodeOutputAOV"): an unnamed pass, Value unlinked and 0.0
NewAovNode == [exists |-> TRUE, aov_name |-> "", link |-> NoLink, default_value |-> 0]

\* the Roughness input of a Principled BSDF node: fed by a link from a source
\* socket, or holding a constant (in tenths)
RoughnessInputs == {[link |-> "s1", default_value |-> 5], [link |-> NoLink, default_value |-> 7]}

\* the node named "AOV Output" a material may hold before the run
AovNodes ==
    {NoNode,
     NewAovNode,
     [exists |-> TRUE, aov_name |-> "Other", link |-> "s2", default_value |-> 3]}

\* the Principled BSDF nodes of a material, in the order of its node list
BsdfLists == {<<>>} \cup {<<b>> : b \in RoughnessInputs}
                    \cup {<<b, c>> : b, c \in RoughnessInputs}

Materials ==
    [use_nodes : {TRUE}, aov : AovNodes, bsdfs : BsdfLists]
    \cup [use_nodes : {FALSE}, aov : {NoNode}, bsdfs : {<<>>, <<[link |-> NoLink, default_value |-> 7]>>}]

\* the longest bpy.data.materials
MaxMaterials == 2

\* a plausible slip: the constant written although the roughness input is linked
SetUpMaterialConstantOnly(m) ==
    IF ~m.use_nodes THEN m
    ELSE LET a0 == IF m.aov.exists THEN m.aov ELSE NewAovNode
             a1 == [a0 EXCEPT !.aov_name = "Roughness"]
         IN  IF m.bsdfs = <<>> THEN [m EXCEPT !.aov = a1]
             ELSE [m EXCEPT !.aov = [a1 EXCEPT !.default_value = m.bsdfs[1].default_value]]

\* the body of the loop of lines 60-93 for one material
SetUpMaterial(m) ==
    IF ~m.use_nodes THEN m
    ELSE LET a0 == IF m.aov.exists THEN m.aov ELSE NewAovNode
             a1 == [a0 EXCEPT !.aov_name = "Roughness"]
         IN  IF m.bsdfs = <<>> THEN [m EXCEPT !.aov = a1]
             ELSE LET roughness_socket == m.bsdfs[1]
                  IN  IF roughness_socket.link # NoLink
                      THEN [m EXCEPT !.aov = [a1 EXCEPT !.link = roughness_socket.link]]
                      ELSE [m EXCEPT !.aov = [a1 EXCEPT !.default_value =
                                                           roughness_socket.default_value]]

\* lines 53-57
RegisterRoughnessPass ==
    /\ rpc = "register"
    /\ aovs' = Append(aovs, [name |-> "Roughness", type |-> "VALUE"])
    /\ mat' = 1
    /\ rpc' = "materials"
    /\ UNCHANGED <<blend, materials, passes, pvars>>

\* lines 60-93, one material
SetUpNextMaterial ==
    /\ rpc = "materials"
    /\ mat <= Len(materials)
    /\ materials' = [materials EXCEPT ![mat] = SetUpMaterial(@)]
    /\ mat' = mat + 1
    /\ UNCHANGED <<rpc, blend, aovs, passes, pvars>>

\* lines 95-107
EnablePasses ==
    /\ rpc = "materials"
    /\ mat > Len(materials)
    /\ passes' = {"vector", "normal", "mist", "diffuse_direct", "diffuse_indirect",
                  "diffuse_color", "glossy_direct", "glossy_indirect", "glossy_color",
                  "emit", "environment"}
    /\ rpc' = "render"
    /\ UNCHANGED <<blend, aovs, materials, mat, pvars>>

----------------------------------------------------------------------------
(* Initial states and specifications. *)

MissingDir == [exists |-> FALSE, subdirs |-> NoGroups]
Dir(content) == [exists |-> TRUE, subdirs |-> content]

TestLists(maxIndex, maxLen) == UNION {[1..k -> 0..maxIndex] : k \in 1..maxLen}

RenderIdle ==
    /\ rpc = "idle"
    /\ blend = <<>>
    /\ aovs = <<>>
    /\ materials = <<>>
    /\ mat = 0
    /\ passes = {}

PackagerAt(a, d, p, at) ==
    /\ args = a
    /\ input_dir = d
    /\ prior = p
    /\ archive = p
    /\ pc = at
    /\ err = NoErr
    /\ existing_resolutions = {}
    /\ subdirs = <<>>
    /\ n_frames = 0
    /\ n_sequences = 0
    /\ cur = 0
    /\ sequence = 0
    /\ frame = 0
    /\ train_seq_index = 0
    /\ test_seq_index = 0
    /\ frame_dimensions = None
    /\ log = <<>>
    /\ reads = <<>>

\* runs that vary the directory, the prior archive and the mode flags
InitArchiveRuns ==
    \E a \in [append : BOOLEAN, overwrite : BOOLEAN,
              frames_per_sequence : 0..MaxFps,
              frame_index_digits : {DefaultDigits},
              sequence_index_digits : {DefaultDigits},
              test_sequences : {<<0>>}],
       d \in {MissingDir} \cup
             UNION {{Dir([r \in S |-> UniformSubdir(c[r], <<2, 2>>)]) : c \in [S -> 0..MaxFrames]}
                    : S \in SUBSET Resolutions},
       p \in {NoFile} \cup {PriorArchive(E) : E \in SUBSET Resolutions} :
        PackagerAt(a, d, p, "start")

\* runs that vary the sequence length, the test list and the digit widths
InitRoutingRuns ==
    \E a \in [append : {FALSE}, overwrite : {FALSE},
              frames_per_sequence : 1..MaxFps,
              frame_index_digits : 1..MaxDigits,
              sequence_index_digits : DefaultDigits..MaxDigits,
              test_sequences : TestLists(MaxFrames, MaxTestLen)],
       n \in 1..MaxFrames :
        PackagerAt(a, Dir([r \in {"A"} |-> UniformSubdir(n, <<2, 2>>)]), NoFile, "start")

\* runs that vary the dimensions of the frames
InitDimensionRuns ==
    \E a \in [append : {FALSE}, overwrite : {FALSE},
              frames_per_sequence : 1..MaxFps,
              frame_index_digits : {DefaultDigits},
              sequence_index_digits : {DefaultDigits},
              test_sequences : {<<0>>}],
       n \in 1..MaxFrames :
        \E da \in [{RenderedFile(i) : i \in 1..n} -> DimChoices], db \in DimChoices :
            PackagerAt(a, Dir([r \in {"A", "B"} |->
                                  IF r = "A" THEN da ELSE UniformSubdir(n, db)]),
                       NoFile, "start")

Init ==
    /\ RenderIdle
    /\ \/ InitArchiveRuns
       \/ InitRoutingRuns
       \/ InitDimensionRuns

Next ==
    \/ CheckInputDir
    \/ CheckOutputFile
    \/ ListSubdirs
    \/ ValidateFrameCounts
    \/ ComputeSequences
    \/ OpenArchive
    \/ BeginResolution
    \/ BeginSequence
    \/ ProcessFrame
    \/ EndResolution

Spec == Init /\ [][Next]_vars

InitRender ==
    /\ PackagerAt([append |-> FALSE, overwrite |-> FALSE, frames_per_sequence |-> 1,
                   frame_index_digits |-> DefaultDigits,
                   sequence_index_digits |-> DefaultDigits, test_sequences |-> <<0>>],
                  MissingDir, NoFile, "idle")
    /\ rpc = "register"
    /\ aovs = <<>>
    /\ materials \in UNION {[1..k -> Materials] : k \in 1..MaxMaterials}
    /\ blend = materials
    /\ mat = 0
    /\ passes = {}

NextRender ==
    \/ RegisterRoughnessPass
    \/ SetUpNextMaterial
    \/ EnablePasses

SpecRender == InitRender /\ [][NextRender]_vars

----------------------------------------------------------------------------
(* Vocabulary of the properties. *)

\* the number a digit string denotes
RECURSIVE Value(_)
Value(ds) == IF ds = <<>> THEN 0 ELSE 10 * Value(SubSeq(ds, 1, Len(ds) - 1)) + ds[Len(ds)]

\* ds is a number zero-padded to a width of w digits
Padded(ds, w) == Len(ds) >= w /\ (Len(ds) > w => ds[1] # 0)

Range(s) == {s[i] : i \in 1..Len(s)}

IsAssembling(l) == l.msg = "Assembling sequence"
IsDimWarning(l) == l.msg = "Detected inconsistent frame dimensions"

\* the sequences the run assembled for resolution r, in order
Assembled(r) == LET Of(l) == IsAssembling(l) /\ l.res = r IN SelectSeq(log, Of)

\* the source files the run opened for resolution r, in order
ReadsOf(r) == LET Of(e) == e.res = r IN SelectSeq(reads, Of)

\* the resolutions whose packaging the run has finished
Completed == {subdirs[i] : i \in 1..Len(subdirs) \cap 1..(cur - 1)}

\* the run has selected the subdirectories to package
Listed ==
    \/ pc \in {"count", "sequences", "open", "resolution", "sequence", "frame", "done"}
    \/ pc = "error" /\ err.kind \notin {"FileNotFoundError", "exit(1)"}

\* the run is past the frame count validation of a non-empty selection
Validated ==
    \/ pc \in {"sequences", "open", "resolution", "sequence", "frame", "done"}
    \/ pc = "error" /\ err.kind \notin {"FileNotFoundError", "exit(1)", "IndexError"}

\* the run has opened the destination archive for writing
ArchiveOpened == pc \in {"resolution", "sequence", "frame", "done"} \/ archive # prior

FrameCount(r) == Cardinality(DOMAIN input_dir.subdirs[r])

----------------------------------------------------------------------------
(* C1: every sequence index 0..n_sequences-1, walked in ascending order,     *)
(* creates exactly one sequence group, under test if the index is in the     *)
(* test list and under train otherwise, and within each split the group      *)
(* numbers are 0,1,...,k-1 in the order of creation.                         *)
C1_Routing ==
    \A r \in Resolutions :
        LET A == Assembled(r)
        IN  A # <<>> =>
              /\ r \in DOMAIN archive.groups
              /\ Len(A) <= n_sequences
              /\ \A i \in 1..Len(A) :
                    /\ A[i].sequence = i - 1
                    /\ A[i].split = "test" <=> A[i].sequence \in Range(args.test_sequences)
                    /\ A[i].split \in {"test", "train"}
              /\ \A split \in {"test", "train"} :
                    LET g == archive.groups[r][split]
                        k == Cardinality({i \in 1..Len(A) : A[i].split = split})
                    IN  /\ Len(g) = k
                        /\ \A j \in 1..k :
                              /\ g[j].name.prefix = "seq"
                              /\ Value(g[j].name.digits) = j - 1
                              /\ Padded(g[j].name.digits, args.sequence_index_digits)
              /\ r \in Completed => Len(A) = n_sequences

\* a finished run whose second train group comes from sequence 2, sequence 1
\* having gone to test
C1_Witness ==
    /\ pc = "done"
    /\ \E r \in DOMAIN archive.groups :
          /\ Len(Assembled(r)) >= 3
          /\ Assembled(r)[2].split = "test"
          /\ Assembled(r)[3].split = "train"
          /\ Len(archive.groups[r].train) >= 2

(* C2 as stated: the file read for frame f of sequence s has index            *)
(* f + P*s + 1, formatted with the configured --frame-index-digits width.     *)
C2_ConfiguredWidth ==
    \A i \in 1..Len(reads) :
        /\ Value(reads[i].file.digits) =
              reads[i].frame + args.frames_per_sequence * reads[i].sequence + 1
        /\ Padded(reads[i].file.digits, args.frame_index_digits)

(* C2 amended: the file read for frame f of sequence s is the file of the     *)
(* directory with index f + P*s + 1, formatted with a fixed width of four     *)
(* digits whatever --frame-index-digits is; the configured width pads the     *)
(* name of the frame group, which numbers the frame within its sequence.      *)
C2_FixedWidth ==
    /\ \A i \in 1..Len(reads) :
          /\ Value(reads[i].file.digits) =
                reads[i].frame + args.frames_per_sequence * reads[i].sequence + 1
          /\ Padded(reads[i].file.digits, 4)
          /\ reads[i].file.prefix = "frame"
          /\ reads[i].file \in DOMAIN input_dir.subdirs[reads[i].res]
          /\ reads[i].sequence \in 0..(n_sequences - 1)
          /\ reads[i].frame \in 0..(args.frames_per_sequence - 1)
    /\ \A r \in DOMAIN archive.groups : \A split \in {"test", "train"} :
          archive.groups[r] # PriorGroup(r) =>
            \A k \in 1..Len(archive.groups[r][split]) :
                LET fs == archive.groups[r][split][k].frames
                IN  \A j \in 1..Len(fs) :
                        /\ Value(fs[j].name.digits) = j - 1
                        /\ Padded(fs[j].name.digits, args.frame_index_digits)

\* a frame other than the first, of a sequence other than the first, read
\* while the configured width is not four
C2_Witness ==
    /\ args.frame_index_digits # 4
    /\ \E i \in 1..Len(reads) : reads[i].frame >= 1 /\ reads[i].sequence >= 1
    /\ pc = "done"

(* C3 as stated: with the overwrite flag set, with or without append, a       *)
(* successful run against an existing archive leaves only the resolutions     *)
(* packaged in this run, and the run does not fail because a resolution       *)
(* name already exists in the archive.                                        *)
C3_OverwriteReplaces ==
    (args.overwrite /\ prior.exists) =>
        /\ err.kind # "ValueError: name already exists"
        /\ pc = "done" => DOMAIN archive.groups = Range(subdirs)

(* C4: in append mode against an archive holding the resolutions E and a      *)
(* directory holding D, the run selects, creates and fills exactly D \ E,     *)
(* and the groups of E are unchanged.                                         *)
C4_AppendMissing ==
    (args.append /\ ~args.overwrite /\ prior.exists) =>
        LET E == DOMAIN prior.groups
            D == DOMAIN input_dir.subdirs
        IN  /\ Listed => Range(subdirs) = D \ E
            /\ \A r \in E : r \in DOMAIN archive.groups /\ archive.groups[r] = prior.groups[r]
            /\ DOMAIN archive.groups \subseteq E \cup (D \ E)
            /\ pc = "done" =>
                  /\ DOMAIN archive.groups = E \cup D
                  /\ \A r \in D \ E :
                        LET g == archive.groups[r]
                        IN  /\ Len(g.train) + Len(g.test) = n_sequences
                            /\ \A split \in {"test", "train"} : \A k \in 1..Len(g[split]) :
                                  /\ Len(g[split][k].frames) = args.frames_per_sequence
                                  /\ \A j \in 1..Len(g[split][k].frames) :
                                        g[split][k].frames[j].layers = LayerNames

\* the archive held A and B, the directory holds A, B and C, and the run is done
C4_Witness ==
    /\ pc = "done"
    /\ args.append /\ ~args.overwrite
    /\ DOMAIN prior.groups = {"A", "B"}
    /\ DOMAIN input_dir.subdirs = {"A", "B", "C"}
    /\ "C" \in DOMAIN archive.groups
    /\ archive.groups["C"].dims # None

(* C5: a missing input directory, an existing archive with neither append     *)
(* nor overwrite, differing frame counts and a zero sequence count each end   *)
(* the run in an error before the archive is opened for writing: the archive  *)
(* is as it was before the run, and none is created when none existed.        *)
C5_FailBeforeOpen ==
    /\ err.kind \in {"FileNotFoundError", "exit(1)",
                     "ValueError: inconsistent number of frames",
                     "ValueError: not enough frames"}
          => pc = "error" /\ archive = prior
    /\ ArchiveOpened =>
          /\ input_dir.exists
          /\ ~(prior.exists /\ ~args.append /\ ~args.overwrite)
          /\ \A i, j \in 1..Len(subdirs) : FrameCount(subdirs[i]) = FrameCount(subdirs[j])
          /\ args.frames_per_sequence > 0
          /\ FrameCount(subdirs[1]) \div args.frames_per_sequence >= 1
    /\ pc = "error" /\ err.kind \in {"FileNotFoundError", "exit(1)", "IndexError",
                                     "ValueError: inconsistent number of frames",
                                     "ZeroDivisionError", "ValueError: not enough frames"}
          => archive = prior

\* too few frames for one sequence, met with an existing archive in append mode
C5_Witness ==
    /\ pc = "error"
    /\ err.kind = "ValueError: not enough frames"
    /\ prior.exists /\ prior.groups # NoGroups
    /\ args.append
    /\ n_frames > 0

(* C6: the run aborts with the frame count error exactly when the frame       *)
(* counts of the selected subdirectories are not all equal, and the error     *)
(* names the first subdirectory, in iteration order, whose count differs      *)
(* from the first subdirectory's.                                             *)
C6_FirstMismatchNamed ==
    (Validated /\ subdirs # <<>>) =>
        LET mismatch == err.kind = "ValueError: inconsistent number of frames"
        IN  /\ mismatch <=> \E i, j \in 1..Len(subdirs) :
                               FrameCount(subdirs[i]) # FrameCount(subdirs[j])
            /\ mismatch =>
                  \E i \in 2..Len(subdirs) :
                      /\ err.res = subdirs[i]
                      /\ FrameCount(subdirs[i]) # FrameCount(subdirs[1])
                      /\ \A j \in 2..(i - 1) : FrameCount(subdirs[j]) = FrameCount(subdirs[1])

\* three subdirectories, the third the first to differ, holding more frames
C6_Witness ==
    /\ err.kind = "ValueError: inconsistent number of frames"
    /\ Len(subdirs) = 3
    /\ err.res = subdirs[3]
    /\ FrameCount(subdirs[3]) > FrameCount(subdirs[1])

(* C7: a successful run creates exactly floor(F/P) sequence groups for a      *)
(* resolution of F frames, each of exactly P frame groups; every source       *)
(* index in 1..P*floor(F/P) is read exactly once and none above it.           *)
C7_CompleteSequences ==
    \A r \in Range(subdirs) :
        LET F == FrameCount(r)
            P == args.frames_per_sequence
            R == ReadsOf(r)
        IN  /\ \A i \in 1..Len(R) :
                  /\ Value(R[i].file.digits) \in 1..(P * (F \div P))
                  /\ Value(R[i].file.digits) <= F
                  /\ \A j \in 1..Len(R) : R[i].file = R[j].file => i = j
            /\ r \in Completed =>
                  LET g == archive.groups[r]
                  IN  /\ Len(g.train) + Len(g.test) = F \div P
                      /\ \A split \in {"test", "train"} : \A k \in 1..Len(g[split]) :
                            Len(g[split][k].frames) = P
                      /\ {Value(R[i].file.digits) : i \in 1..Len(R)} = 1..(P * (F \div P))
                      /\ Len(R) = P * (F \div P)

\* a finished run that dropped a remainder
C7_Witness ==
    /\ pc = "done"
    /\ n_frames % args.frames_per_sequence # 0
    /\ n_sequences >= 1
    /\ Len(reads) = args.frames_per_sequence * n_sequences * Len(subdirs)

(* C8 as stated: the first frame of a resolution fixes the canonical          *)
(* dimensions, which stay for the rest of the resolution and end up in its    *)
(* attributes; a later frame of other dimensions gives a warning and no       *)
(* abort: its layers and all remaining frames are still written.              *)
C8_WarningOnly ==
    /\ (cur \in 1..Len(subdirs) /\ frame_dimensions # None) =>
          LET r == subdirs[cur]
          IN  ReadsOf(r) # <<>> =>
                frame_dimensions = input_dir.subdirs[r][ReadsOf(r)[1].file]
    /\ \A r \in Completed :
          archive.groups[r].dims = input_dir.subdirs[r][ReadsOf(r)[1].file]
    /\ (\E i \in 1..Len(log) : IsDimWarning(log[i])) =>
          err.kind # "ValueError: cannot reshape array"
    /\ \A i \in 1..Len(reads) :
          input_dir.subdirs[reads[i].res][reads[i].file]
             # input_dir.subdirs[reads[i].res][ReadsOf(reads[i].res)[1].file]
          => pc # "error"

(* C10 as stated: after a successful run the root attribute test-sequences    *)
(* is the number of sequence groups under test of each packaged resolution,   *)
(* train-sequences the number under train, train-sequences is not negative    *)
(* and the two sum to n_sequences, for every list of test indices.            *)
C10_SplitCounts ==
    pc = "done" =>
        /\ \A r \in Range(subdirs) :
              /\ archive.attrs.test_sequences = Len(archive.groups[r].test)
              /\ archive.attrs.train_sequences = Len(archive.groups[r].train)
        /\ archive.attrs.train_sequences >= 0
        /\ archive.attrs.test_sequences + archive.attrs.train_sequences = n_sequences

----------------------------------------------------------------------------
(* The renderer driver. *)

\* the AOV output node of material m carries the roughness of its first
\* Principled BSDF node
CarriesRoughness(m) ==
    /\ m.aov.exists
    /\ m.aov.aov_name = "Roughness"
    /\ m.bsdfs # <<>>
    /\ IF m.bsdfs[1].link # NoLink
       THEN m.aov.link = m.bsdfs[1].link
       ELSE m.aov.default_value = m.bsdfs[1].default_value

====
